---- MODULE Spec2Model ----
(***************************************************************************)
(* Model of cost_optimizer_main.py: the Cost Explorer fetch with its       *)
(* pagination loop, the fallback to mock_aws_costs.json, and the pandas    *)
(* pipeline (DataFrame, date conversion, group-by sums, recommendation     *)
(* rule, sorted service totals for the printer and the bar chart).         *)
(***************************************************************************)
EXTENDS Integers, Sequences, FiniteSets, TLC

\* ---------------------------------------------------------------- bounds
\* Most API exchanges of one fetch; the last one allowed carries no token.
MaxPages == 2
\* Most raw entries of one run (groups of a fetch, entries of the snapshot).
MaxRows == 3

\* ------------------------------------------------------ program constants
\* The literal of `df['DayServiceCost'] > 10`.
Threshold == 10

\* Python's None, and the NaN pandas puts where a dict lacks a key.
None == "None"
NaN == "NaN"

\* The days of the queried range, in order (30 days in the script, two here).
RangeDays == <<"2024-01-01", "2024-01-02">>
ServiceNames == {"EC2", "S3"}
\* Opaque, non-empty page tokens of Cost Explorer.
Tokens == {"tokA", "tokB"}
\* The 'Amount' strings of a response.
Amounts == {"6"}

\* A Python number, or the string "abc" repeated val times (num = FALSE).
Num(n) == [num |-> TRUE, val |-> n]
Str(k) == [num |-> FALSE, val |-> k]

\* ------------------------------------------------------------ conversions
\* float(<Amount string>)
Float(s) == CASE s = "6" -> Num(6) [] s = "5" -> Num(5)

\* Truth value of a token in `if next_page_token:` / `if not next_page_token:`
Truthy(t) == t # None /\ t # ""

\* pd.to_datetime on one string: the day number, 0 when it cannot be parsed.
Parseable(s) == s \in {"2024-01-01", "2024-01-02"}
ToDatetime(s) == CASE s = "2024-01-01" -> 1 [] s = "2024-01-02" -> 2 [] OTHER -> 0

\* Timestamp.strftime('%Y-%m-%d')
Strftime(d) == CASE d = 1 -> "2024-01-01" [] d = 2 -> "2024-01-02" [] OTHER -> "NaT"

\* Order of service names (string comparison): "EC2" < "S3".
NameRank(s) == CASE s = "EC2" -> 1 [] s = "S3" -> 2 [] OTHER -> 3

\* ------------------------------------------------- the Cost Explorer API
RemoteGroups == [Key : ServiceNames, Amount : Amounts, Unit : {"USD"}]

GroupSeqs(n) == UNION {[1..m -> RemoteGroups] : m \in 0..n}

RECURSIVE TotalGroups(_)
TotalGroups(rs) ==
    IF rs = <<>> THEN 0 ELSE Len(Head(rs).Groups) + TotalGroups(Tail(rs))

\* The ResultsByTime lists a response may carry: the periods of the next
\* consecutive days after day d, with at most `budget` groups in all.
RECURSIVE PeriodSeqs(_, _)
PeriodSeqs(d, budget) ==
    {<<>>} \cup
    IF d >= Len(RangeDays) THEN {}
    ELSE UNION { { <<[Start |-> RangeDays[d + 1], Groups |-> g]>> \o rest :
                      rest \in PeriodSeqs(d + 1, budget - Len(g)) } :
                 g \in GroupSeqs(budget) }

\* ----------------------------------------------- get_cost_and_usage_data
\* The rows of one ResultsByTime element, in group order.
RowsOfPeriod(p) ==
    [i \in 1..Len(p.Groups) |->
        [Date |-> p.Start, Service |-> p.Groups[i].Key,
         Cost |-> Float(p.Groups[i].Amount), Unit |-> p.Groups[i].Unit]]

\* The loop building processed_data.
RECURSIVE ProcessedData(_)
ProcessedData(rs) ==
    IF rs = <<>> THEN <<>>
    ELSE RowsOfPeriod(Head(rs)) \o ProcessedData(Tail(rs))

\* The token a request carries: `if next_page_token: params[...] = ...`
RequestToken_never(tok) == None
RequestToken(tok) == IF Truthy(tok) THEN tok ELSE None

\* The value returned from the two except clauses.
OnApiError_partial(rs) == ProcessedData(rs)
OnApiError(rs) == <<>>

\* ------------------------------------------------- mock_aws_costs.json
\* Entries with all four fields in order.
WellFormedEntries ==
    [Date : {RangeDays[i] : i \in 1..Len(RangeDays)}, Service : ServiceNames,
     Cost : {Num(5), Num(6), Num(11)}, Unit : {"USD"}]

\* Entries with one defect each: an unparseable date, a string for the cost,
\* a negative cost, no 'Service' key, no 'Unit' key.
BadEntries ==
    { [Date |-> "not-a-date", Service |-> "EC2", Cost |-> Num(6), Unit |-> "USD"],
      [Date |-> "2024-01-01", Service |-> "EC2", Cost |-> Str(1), Unit |-> "USD"],
      [Date |-> "2024-01-01", Service |-> "EC2", Cost |-> Num(-5), Unit |-> "USD"],
      [Date |-> "2024-01-01", Service |-> NaN, Cost |-> Num(6), Unit |-> "USD"],
      [Date |-> "2024-01-01", Service |-> "EC2", Cost |-> Num(6), Unit |-> NaN] }

\* The lists json.load may return.
SnapshotLists ==
    UNION {[1..m -> WellFormedEntries \cup BadEntries] : m \in 0..MaxRows}

\* `if not aws_costs:`
FallbackNeeded_always(costs) == TRUE
FallbackNeeded(costs) == costs = <<>>

\* ------------------------------------------------------- pandas helpers
\* The missing value of a numeric column.
NaNCost == [num |-> FALSE, val |-> 0]
IsStr(x) == ~x.num /\ x.val > 0

\* The keys of a group-by, ascending (groupby sorts its keys).
RECURSIVE SortedInts(_)
SortedInts(S) ==
    IF S = {} THEN <<>>
    ELSE LET m == CHOOSE x \in S : \A y \in S : x <= y
         IN <<m>> \o SortedInts(S \ {m})

SortedNames(S) ==
    LET ranks == SortedInts({NameRank(s) : s \in S})
    IN [i \in 1..Len(ranks) |-> CHOOSE s \in S : NameRank(s) = ranks[i]]

CostsOf(rows) == [i \in 1..Len(rows) |-> rows[i].Cost]

\* sum() of a group's Cost values: numbers add, strings concatenate, and a
\* number with a string raises TypeError.
SumRaises(costs) ==
    \E i, j \in 1..Len(costs) : costs[i].num /\ ~costs[j].num

RECURSIVE SumVals(_)
SumVals(costs) ==
    IF costs = <<>> THEN 0 ELSE Head(costs).val + SumVals(Tail(costs))

Sum_first(costs) == costs[1]
Sum(costs) == [num |-> costs[1].num, val |-> SumVals(costs)]

\* df.groupby('Date')['Cost'].sum().reset_index()
DateGroup(df, d) == SelectSeq(df, LAMBDA r : r.Date = d)
GroupByDateRaises(df) ==
    \E i \in 1..Len(df) : SumRaises(CostsOf(DateGroup(df, df[i].Date)))
GroupByDateSum(df) ==
    LET keys == SortedInts({df[i].Date : i \in 1..Len(df)})
    IN [i \in 1..Len(keys) |->
           [Date |-> keys[i], Cost |-> Sum(CostsOf(DateGroup(df, keys[i])))]]

\* df.groupby('Service')['Cost'].sum().reset_index(); rows whose key is NaN
\* belong to no group.
ServiceGroup(df, s) == SelectSeq(df, LAMBDA r : r.Service = s)
GroupByServiceRaises(df) ==
    \E i \in 1..Len(df) :
        df[i].Service # NaN /\ SumRaises(CostsOf(ServiceGroup(df, df[i].Service)))
GroupByServiceSum(df) ==
    LET keys == SortedNames({df[i].Service : i \in 1..Len(df)} \ {NaN})
    IN [i \in 1..Len(keys) |->
           [Service |-> keys[i], Cost |-> Sum(CostsOf(ServiceGroup(df, keys[i])))]]

\* sort_values(by='Cost', ascending=False): the default kind is quicksort,
\* which is not stable, so rows of equal Cost come out in any order. Sorting
\* numbers together with strings raises TypeError.
SortValuesRaises(t) ==
    \E i, j \in 1..Len(t) : t[i].Cost.num # t[j].Cost.num
SortValuesDesc(t) ==
    { s \in { [i \in 1..Len(t) |-> t[p[i]]] : p \in Permutations(1..Len(t)) } :
        \A i, j \in 1..Len(s) : i < j => s[i].Cost.val >= s[j].Cost.val }

\* df.groupby(['Date', 'Service'])['Cost'].transform('sum')
DayServiceGroup(df, d, s) == SelectSeq(df, LAMBDA r : r.Date = d /\ r.Service = s)
TransformRaises(df) ==
    \E i \in 1..Len(df) :
        /\ df[i].Service # NaN
        /\ SumRaises(CostsOf(DayServiceGroup(df, df[i].Date, df[i].Service)))
TransformSum(df) ==
    [i \in 1..Len(df) |->
        IF df[i].Service = NaN THEN NaNCost
        ELSE Sum(CostsOf(DayServiceGroup(df, df[i].Date, df[i].Service)))]

\* `df['DayServiceCost'] = ...`
WithDayServiceCost(df) ==
    LET col == TransformSum(df)
    IN [i \in 1..Len(df) |->
           [Date |-> df[i].Date, Service |-> df[i].Service, Cost |-> df[i].Cost,
            Unit |-> df[i].Unit, DayServiceCost |-> col[i]]]

\* `df['DayServiceCost'] > 10`: a string in the column raises TypeError, NaN
\* compares False.
CompareRaises(df) == \E i \in 1..Len(df) : IsStr(df[i].DayServiceCost)
OverThreshold_orEqual(x) == x.num /\ x.val >= Threshold
OverThreshold(x) == x.num /\ x.val > Threshold

\* drop_duplicates(subset=['Date', 'Service']): the first row of each pair.
DropDuplicates_none(rows) == rows
DropDuplicates(rows) ==
    LET keep == { i \in 1..Len(rows) :
                    ~\E j \in 1..(i - 1) :
                        /\ rows[j].Date = rows[i].Date
                        /\ rows[j].Service = rows[i].Service }
        idx == SortedInts(keep)
    IN [k \in 1..Len(idx) |-> rows[idx[k]]]

\* df[df['DayServiceCost'] > 10].drop_duplicates(subset=['Date', 'Service'])
HighCostPerServicePerDay(df) ==
    DropDuplicates(SelectSeq(df, LAMBDA r : OverThreshold(r.DayServiceCost)))

\* What line 128 prints of one row.
PrintedRecommendation(row) ==
    [Date |-> Strftime(row.Date), Service |-> row.Service,
     Cost |-> row.Cost, Unit |-> row.Unit]

\* The Date column after pd.to_datetime.
ToDatetimeColumn(df) ==
    [i \in 1..Len(df) |-> [df[i] EXCEPT !.Date = ToDatetime(df[i].Date)]]

VARIABLES
    pc,               \* position of the script
    ce_client,        \* module-level client, None when boto3.client raised
    results,          \* local of get_cost_and_usage_data
    next_page_token,  \* local of get_cost_and_usage_data
    api_log,          \* the exchanges with get_cost_and_usage, in order
    fetch_outcome,    \* how get_cost_and_usage_data ended
    remote_costs,     \* what get_cost_and_usage_data returned
    snapshot_state,   \* "unread", "missing" or "loaded"
    snapshot,         \* the list read from mock_aws_costs.json
    aws_costs,        \* module-level aws_costs
    error,            \* the exception or exit message that ended the run
    df,               \* the DataFrame
    daily_total_cost,
    service_total_cost,
    printed_service_totals,  \* the sorted frame line 117 prints
    recommendations,         \* what lines 127-128 print, in order
    chart_service_totals     \* the sorted frame handed to sns.barplot

fetchVars == <<ce_client, results, next_page_token, api_log, fetch_outcome,
               remote_costs>>
sourceVars == <<snapshot_state, snapshot, aws_costs>>
reportVars == <<daily_total_cost, service_total_cost, printed_service_totals,
                recommendations, chart_service_totals>>
pipelineVars == <<error, df, daily_total_cost, service_total_cost,
                  printed_service_totals, recommendations, chart_service_totals>>

vars == <<pc, ce_client, results, next_page_token, api_log, fetch_outcome,
          remote_costs, snapshot_state, snapshot, aws_costs, error, df,
          daily_total_cost, service_total_cost, printed_service_totals,
          recommendations, chart_service_totals>>

Init ==
    /\ pc = "init_client"
    /\ ce_client = None
    /\ results = <<>>
    /\ next_page_token = None
    /\ api_log = <<>>
    /\ fetch_outcome = "running"
    /\ remote_costs = <<>>
    /\ snapshot_state = "unread"
    /\ snapshot = <<>>
    /\ aws_costs = <<>>
    /\ error = None
    /\ df = <<>>
    /\ daily_total_cost = <<>>
    /\ service_total_cost = <<>>
    /\ printed_service_totals = <<>>
    /\ recommendations = <<>>
    /\ chart_service_totals = <<>>

\* Lines 9-16: boto3.client either succeeds or raises.
InitClient ==
    /\ pc = "init_client"
    /\ \E c \in {"ce", None} : ce_client' = c
    /\ pc' = "call_fetch"
    /\ UNCHANGED <<results, next_page_token, api_log, fetch_outcome,
                   remote_costs, snapshot_state, snapshot, aws_costs>>
    /\ UNCHANGED pipelineVars

\* A return statement of get_cost_and_usage_data with value v.
Return(v, how) ==
    /\ remote_costs' = v
    /\ fetch_outcome' = how
    /\ pc' = "return"
    /\ UNCHANGED aws_costs

\* Lines 18-30: the early return without a client, or the loop's set-up.
FetchStart ==
    /\ pc = "call_fetch"
    /\ IF ce_client = None
       THEN /\ Return(<<>>, "no_client")
            /\ UNCHANGED <<results, next_page_token>>
       ELSE /\ results' = <<>>
            /\ next_page_token' = None
            /\ pc' = "loop"
            /\ UNCHANGED <<remote_costs, aws_costs, fetch_outcome>>
    /\ UNCHANGED <<ce_client, api_log, snapshot_state, snapshot>>
    /\ UNCHANGED pipelineVars

\* Lines 32-53: one iteration whose request succeeds.
RequestPage ==
    /\ pc = "loop"
    /\ Len(api_log) < MaxPages
    /\ \E page \in PeriodSeqs(Len(results), MaxRows - TotalGroups(results)),
          tok \in Tokens \cup {None} :
        /\ Len(api_log) + 1 = MaxPages => tok = None
        /\ api_log' = Append(api_log,
              [req_token |-> RequestToken(next_page_token),
               page |-> page, resp_token |-> tok])
        /\ results' = results \o page
        /\ next_page_token' = tok
        /\ pc' = IF ~Truthy(tok) THEN "process" ELSE "loop"
    /\ UNCHANGED <<ce_client, fetch_outcome, remote_costs, snapshot_state,
                   snapshot, aws_costs>>
    /\ UNCHANGED pipelineVars

\* Lines 54-56: the request raises DataUnavailableException.
RequestDataUnavailable ==
    /\ pc = "loop"
    /\ Len(api_log) < MaxPages
    /\ api_log' = Append(api_log,
          [req_token |-> RequestToken(next_page_token),
           page |-> <<>>, resp_token |-> "DataUnavailableException"])
    /\ Return(OnApiError(results), "data_unavailable")
    /\ UNCHANGED <<ce_client, results, next_page_token, snapshot_state, snapshot>>
    /\ UNCHANGED pipelineVars

\* Lines 57-60: the request raises any other exception.
RequestError ==
    /\ pc = "loop"
    /\ Len(api_log) < MaxPages
    /\ api_log' = Append(api_log,
          [req_token |-> RequestToken(next_page_token),
           page |-> <<>>, resp_token |-> "Exception"])
    /\ Return(OnApiError(results), "api_error")
    /\ UNCHANGED <<ce_client, results, next_page_token, snapshot_state, snapshot>>
    /\ UNCHANGED pipelineVars

\* Lines 62-75: flatten results into processed_data and return it.
ProcessResults ==
    /\ pc = "process"
    /\ Return(ProcessedData(results), "fetched")
    /\ UNCHANGED <<ce_client, results, next_page_token, api_log,
                   snapshot_state, snapshot>>
    /\ UNCHANGED pipelineVars

\* Line 84: the returned list is bound to aws_costs; the frame of
\* get_cost_and_usage_data (its locals and the record of its exchanges) is
\* gone.
AssignCosts ==
    /\ pc = "return"
    /\ aws_costs' = remote_costs
    /\ results' = <<>>
    /\ next_page_token' = None
    /\ api_log' = <<>>
    /\ pc' = "fallback"
    /\ UNCHANGED <<ce_client, fetch_outcome, remote_costs, snapshot_state,
                   snapshot, pipelineVars>>

\* Line 87 when the fetch returned data: the snapshot is not opened.
FallbackSkip ==
    /\ pc = "fallback"
    /\ ~FallbackNeeded(aws_costs)
    /\ pc' = "build_df"
    /\ UNCHANGED <<fetchVars, sourceVars, pipelineVars>>

\* Lines 87-91: the snapshot is opened and its list replaces aws_costs.
FallbackLoad ==
    /\ pc = "fallback"
    /\ FallbackNeeded(aws_costs)
    /\ \E snap \in SnapshotLists :
        /\ snapshot' = snap
        /\ aws_costs' = snap
    /\ snapshot_state' = "loaded"
    /\ pc' = "build_df"
    /\ UNCHANGED <<fetchVars, pipelineVars>>

\* Lines 92-94: open() raises FileNotFoundError and the script exits.
FallbackMissing ==
    /\ pc = "fallback"
    /\ FallbackNeeded(aws_costs)
    /\ snapshot_state' = "missing"
    /\ error' = "Program terminated. Data source unavailable."
    /\ pc' = "exit"
    /\ UNCHANGED <<fetchVars, snapshot, aws_costs, df, reportVars>>

\* Line 97: pd.DataFrame(aws_costs); an empty list gives a frame with no
\* columns.
BuildDataFrame ==
    /\ pc = "build_df"
    /\ df' = aws_costs
    /\ pc' = "to_datetime"
    /\ UNCHANGED <<fetchVars, sourceVars, error, reportVars>>

\* Line 100: df['Date'] = pd.to_datetime(df['Date'])
ConvertDates ==
    /\ pc = "to_datetime"
    /\ IF df = <<>>
       THEN /\ error' = "KeyError: 'Date'"
            /\ pc' = "crashed"
            /\ UNCHANGED df
       ELSE IF \E i \in 1..Len(df) : ~Parseable(df[i].Date)
       THEN /\ error' = "ValueError: to_datetime"
            /\ pc' = "crashed"
            /\ UNCHANGED df
       ELSE /\ df' = ToDatetimeColumn(df)
            /\ pc' = "daily_totals"
            /\ UNCHANGED error
    /\ UNCHANGED <<fetchVars, sourceVars, reportVars>>

\* Lines 109-112.
DailyTotals ==
    /\ pc = "daily_totals"
    /\ IF GroupByDateRaises(df)
       THEN /\ error' = "TypeError: sum"
            /\ pc' = "crashed"
            /\ UNCHANGED daily_total_cost
       ELSE /\ daily_total_cost' = GroupByDateSum(df)
            /\ pc' = "service_totals"
            /\ UNCHANGED error
    /\ UNCHANGED <<fetchVars, sourceVars, df, service_total_cost,
                   printed_service_totals, recommendations, chart_service_totals>>

\* Lines 115-118.
ServiceTotals ==
    /\ pc = "service_totals"
    /\ IF GroupByServiceRaises(df)
       THEN /\ error' = "TypeError: sum"
            /\ pc' = "crashed"
            /\ UNCHANGED <<service_total_cost, printed_service_totals>>
       ELSE IF SortValuesRaises(GroupByServiceSum(df))
       THEN /\ service_total_cost' = GroupByServiceSum(df)
            /\ error' = "TypeError: sort_values"
            /\ pc' = "crashed"
            /\ UNCHANGED printed_service_totals
       ELSE /\ service_total_cost' = GroupByServiceSum(df)
            /\ printed_service_totals' \in SortValuesDesc(GroupByServiceSum(df))
            /\ pc' = "recommend"
            /\ UNCHANGED error
    /\ UNCHANGED <<fetchVars, sourceVars, df, daily_total_cost, recommendations,
                   chart_service_totals>>

\* Lines 122-131.
Recommend ==
    /\ pc = "recommend"
    /\ IF TransformRaises(df)
       THEN /\ error' = "TypeError: sum"
            /\ pc' = "crashed"
            /\ UNCHANGED <<df, recommendations>>
       ELSE IF CompareRaises(WithDayServiceCost(df))
       THEN /\ df' = WithDayServiceCost(df)
            /\ error' = "TypeError: >"
            /\ pc' = "crashed"
            /\ UNCHANGED recommendations
       ELSE /\ df' = WithDayServiceCost(df)
            /\ recommendations' =
                 LET high == HighCostPerServicePerDay(WithDayServiceCost(df))
                 IN [i \in 1..Len(high) |-> PrintedRecommendation(high[i])]
            /\ pc' = "plot"
            /\ UNCHANGED error
    /\ UNCHANGED <<fetchVars, sourceVars, daily_total_cost, service_total_cost,
                   printed_service_totals, chart_service_totals>>

\* Lines 135-158: the line plot reads daily_total_cost, the bar plot a newly
\* sorted service_total_cost.
Plot ==
    /\ pc = "plot"
    /\ chart_service_totals' \in SortValuesDesc(service_total_cost)
    /\ pc' = "done"
    /\ UNCHANGED <<fetchVars, sourceVars, error, df, daily_total_cost,
                   service_total_cost, printed_service_totals, recommendations>>

NextFetch ==
    \/ InitClient
    \/ FetchStart
    \/ RequestPage
    \/ RequestDataUnavailable
    \/ RequestError
    \/ ProcessResults
    \/ AssignCosts

Next ==
    \/ NextFetch
    \/ FallbackSkip
    \/ FallbackLoad
    \/ FallbackMissing
    \/ BuildDataFrame
    \/ ConvertDates
    \/ DailyTotals
    \/ ServiceTotals
    \/ Recommend
    \/ Plot

Spec == Init /\ [][Next]_vars

\* get_cost_and_usage_data alone, up to the assignment of its result: the
\* interpreter keeps executing it, so its next step is always taken.
FetchSpec == Init /\ [][NextFetch]_vars /\ WF_vars(NextFetch)

\* ------------------------------------------------------------ properties
Reported == pc \in {"plot", "done"}

\* The sum of the numeric Cost values of the rows with index in I.
RECURSIVE CostOver(_, _)
CostOver(rows, I) ==
    IF I = {} THEN 0
    ELSE LET i == CHOOSE x \in I : TRUE
         IN rows[i].Cost.val + CostOver(rows, I \ {i})

\* The (date, service) pairs of the frame and the total of each.
PairRows(d, s) == {i \in 1..Len(df) : df[i].Date = d /\ df[i].Service = s}
Pairs == {<<df[i].Date, df[i].Service>> : i \in {j \in 1..Len(df) : df[j].Service # NaN}}
DayServiceTotal(d, s) == CostOver(df, PairRows(d, s))
RecsFor(d, s) ==
    {k \in 1..Len(recommendations) :
        recommendations[k].Date = Strftime(d) /\ recommendations[k].Service = s}

\* Every raw entry of the run has its four fields in order.
CanonicalInput == \A i \in 1..Len(aws_costs) : aws_costs[i] \in WellFormedEntries

\* C1: every recommendation carries the summed total of its (date, service)
\* pair as its cost, not the cost of one contributing raw row (stated for
\* runs whose entries are all well formed).
C1_RecommendationCarriesTotal ==
    (Reported /\ CanonicalInput) =>
        \A k \in 1..Len(recommendations) :
            recommendations[k].Cost.val =
                DayServiceTotal(ToDatetime(recommendations[k].Date),
                                recommendations[k].Service)

\* C2: the rule is a strict inequality on the day-service total: a pair is
\* recommended exactly when its total exceeds the threshold, so a total equal
\* to the threshold or below it gives none and one unit above it gives one.
C2_StrictThreshold ==
    Reported =>
        \A p \in Pairs :
            LET t == DayServiceTotal(p[1], p[2])
            IN /\ (t = Threshold => RecsFor(p[1], p[2]) = {})
               /\ (t < Threshold => RecsFor(p[1], p[2]) = {})
               /\ (t = Threshold + 1 => RecsFor(p[1], p[2]) # {})
               /\ (t > Threshold <=> RecsFor(p[1], p[2]) # {})

\* C2 witness: a finished run with one pair at the threshold (two rows, not
\* recommended) and one pair one unit above it (recommended).
C2_Witness ==
    /\ pc = "done"
    /\ \E p, q \in Pairs :
        /\ DayServiceTotal(p[1], p[2]) = Threshold
        /\ Cardinality(PairRows(p[1], p[2])) > 1
        /\ DayServiceTotal(q[1], q[2]) = Threshold + 1
        /\ RecsFor(q[1], q[2]) # {}

\* C3: no (date, service) pair appears in two recommendations, and every
\* pair whose total exceeds the threshold appears in exactly one.
C3_UniqueRecommendations ==
    Reported =>
        /\ \A p \in Pairs : Cardinality(RecsFor(p[1], p[2])) <= 1
        /\ \A p \in Pairs :
              DayServiceTotal(p[1], p[2]) > Threshold =>
                  Cardinality(RecsFor(p[1], p[2])) = 1
        /\ \A k \in 1..Len(recommendations) :
              <<ToDatetime(recommendations[k].Date), recommendations[k].Service>>
                  \in Pairs

\* C3 witness: a finished run where a pair with several raw rows is
\* recommended.
C3_Witness ==
    /\ pc = "done"
    /\ \E p \in Pairs :
        /\ Cardinality(PairRows(p[1], p[2])) > 1
        /\ RecsFor(p[1], p[2]) # {}

\* The input without its bad entries, and the report the pipeline makes of a
\* list of entries.
ValidEntries(raw) == SelectSeq(raw, LAMBDA e : e \notin BadEntries)
ReportOf(raw) ==
    LET frame == ToDatetimeColumn(raw)
        high == HighCostPerServicePerDay(WithDayServiceCost(frame))
    IN [daily |-> GroupByDateSum(frame),
        service |-> GroupByServiceSum(frame),
        recs |-> [i \in 1..Len(high) |-> PrintedRecommendation(high[i])]]

\* C4: one bad raw entry never aborts the run; the totals and the
\* recommendations are those of the input without the bad entry.
C4_BadEntrySkipped ==
    ( /\ snapshot_state = "loaded"
      /\ Len(ValidEntries(snapshot)) + 1 = Len(snapshot)
      /\ ValidEntries(snapshot) # <<>> ) =>
        /\ pc # "crashed"
        /\ pc = "done" =>
            /\ daily_total_cost = ReportOf(ValidEntries(snapshot)).daily
            /\ service_total_cost = ReportOf(ValidEntries(snapshot)).service
            /\ recommendations = ReportOf(ValidEntries(snapshot)).recs

\* The fetch returned no entry and the snapshot is missing or holds none.
BothSourcesEmpty ==
    /\ fetch_outcome # "running"
    /\ remote_costs = <<>>
    /\ snapshot_state \in {"missing", "loaded"}
    /\ snapshot = <<>>

\* C5: with both sources exhausted and zero raw entries, the run halts with
\* the source-unavailable exit and no aggregation step is executed.
C5_EmptyInputHaltsBeforeAggregation ==
    BothSourcesEmpty => pc \in {"build_df", "exit"}

\* Lines 109 and 115 have run.
Aggregated == pc \in {"recommend", "plot", "done"}
RECURSIVE TotalOf(_)
TotalOf(t) == IF t = <<>> THEN 0 ELSE Head(t).Cost.val + TotalOf(Tail(t))
HasServiceAndNumber == \A i \in 1..Len(df) : df[i].Service # NaN /\ df[i].Cost.num

\* C6: sum conservation over record sets whose entries all have a service and
\* a numeric cost: the daily totals, the service totals and the records add
\* up to the same amount, with one daily row per distinct date and one
\* service row per distinct service.
C6_SumConservation ==
    (Aggregated /\ HasServiceAndNumber) =>
        /\ TotalOf(daily_total_cost) = CostOver(df, 1..Len(df))
        /\ TotalOf(service_total_cost) = CostOver(df, 1..Len(df))
        /\ Len(daily_total_cost) = Cardinality({df[i].Date : i \in 1..Len(df)})
        /\ Len(service_total_cost) = Cardinality({df[i].Service : i \in 1..Len(df)})
        /\ \A i, j \in 1..Len(daily_total_cost) :
              i # j => daily_total_cost[i].Date # daily_total_cost[j].Date
        /\ \A i, j \in 1..Len(service_total_cost) :
              i # j => service_total_cost[i].Service # service_total_cost[j].Service

\* C6 witness: totals of a frame with two dates, two services and a pair
\* with two rows.
C6_Witness ==
    /\ Aggregated
    /\ HasServiceAndNumber
    /\ Len(daily_total_cost) > 1
    /\ Len(service_total_cost) > 1
    /\ Len(df) > Cardinality(Pairs)

\* Descending by cost, equal costs in ascending name order.
DescendingWithNameTies(t) ==
    \A i, j \in 1..Len(t) :
        i < j =>
            \/ t[i].Cost.val > t[j].Cost.val
            \/ /\ t[i].Cost.val = t[j].Cost.val
               /\ NameRank(t[i].Service) < NameRank(t[j].Service)

\* C7: the service totals handed to the printer and to the chart descend by
\* total cost with equal totals in ascending service-name order, and the
\* daily totals ascend by date (stated for runs whose entries are all well
\* formed).
C7_ServiceTotalsOrdered ==
    (pc = "done" /\ CanonicalInput) =>
        /\ DescendingWithNameTies(printed_service_totals)
        /\ DescendingWithNameTies(chart_service_totals)
        /\ \A i, j \in 1..Len(daily_total_cost) :
              i < j => daily_total_cost[i].Date < daily_total_cost[j].Date

\* The script is past line 94.
InPipeline ==
    pc \in {"build_df", "to_datetime", "daily_totals", "service_totals",
            "recommend", "plot", "done", "crashed"}

\* C8: the snapshot is opened only after the fetch has ended without data,
\* and the records that are aggregated are all the fetch's or all the
\* snapshot's.
C8_OneSource ==
    /\ snapshot_state # "unread" =>
          /\ fetch_outcome \in {"no_client", "data_unavailable", "api_error", "fetched"}
          /\ remote_costs = <<>>
    /\ InPipeline =>
          \/ /\ snapshot_state = "unread"
             /\ remote_costs # <<>>
             /\ aws_costs = remote_costs
          \/ /\ snapshot_state = "loaded"
             /\ remote_costs = <<>>
             /\ aws_costs = snapshot

\* C8 witness: a finished run on snapshot entries after a fetch that
\* succeeded with zero records.
C8_Witness ==
    /\ pc = "done"
    /\ snapshot_state = "loaded"
    /\ fetch_outcome = "fetched"
    /\ Len(aws_costs) > 1

\* The records of the pages of the exchanges, in page, period and group order.
RECURSIVE PageRecords(_)
PageRecords(page) ==
    IF page = <<>> THEN <<>>
    ELSE [g \in 1..Len(Head(page).Groups) |->
             [Date |-> Head(page).Start, Service |-> Head(page).Groups[g].Key,
              Cost |-> Float(Head(page).Groups[g].Amount),
              Unit |-> Head(page).Groups[g].Unit]]
         \o PageRecords(Tail(page))
RECURSIVE LogRecords(_)
LogRecords(log) ==
    IF log = <<>> THEN <<>>
    ELSE PageRecords(Head(log).page) \o LogRecords(Tail(log))
Raised(x) == x.resp_token \in {"DataUnavailableException", "Exception"}

\* C9: when the request for any page raises, the function returns the empty
\* list whatever earlier pages held; a non-empty return value holds the
\* records of every page of a chain that ended without a token.
C9_AllOrNothing ==
    pc = "return" =>
        /\ (\E i \in 1..Len(api_log) : Raised(api_log[i])) => remote_costs = <<>>
        /\ remote_costs # <<>> =>
              /\ \A i \in 1..Len(api_log) : ~Raised(api_log[i])
              /\ api_log[Len(api_log)].resp_token = None
              /\ remote_costs = LogRecords(api_log)

\* C9 witness: a later page raises after a page with records was fetched.
C9_Witness ==
    /\ pc = "return"
    /\ Len(api_log) > 1
    /\ Raised(api_log[Len(api_log)])
    /\ LogRecords(api_log) # <<>>
    /\ remote_costs = <<>>

\* The tokens of the exchanges so far, and the result of a successful fetch.
TokenDiscipline ==
    /\ api_log # <<>> => api_log[1].req_token = None
    /\ \A i \in 2..Len(api_log) :
          /\ api_log[i - 1].resp_token \in Tokens
          /\ api_log[i].req_token = api_log[i - 1].resp_token
    /\ (pc = "loop" /\ api_log # <<>>) => api_log[Len(api_log)].resp_token \in Tokens
    /\ pc = "process" => api_log[Len(api_log)].resp_token = None
    /\ (pc = "return" /\ fetch_outcome = "fetched") =>
          /\ api_log[Len(api_log)].resp_token = None
          /\ remote_costs = LogRecords(api_log)
FetchReturned == pc \notin {"init_client", "call_fetch", "loop", "process"}

\* C10: the first request carries no token, each later request carries the
\* token of the response before it, the loop stops at the first response
\* without a token, the function returns, and on success it returns one
\* record per (time period, group) of all pages in page order.
C10_Pagination == []TokenDiscipline /\ <>FetchReturned

\* C10 witness: a successful fetch of several pages with records on more
\* than one page.
C10_Witness ==
    /\ pc = "return"
    /\ fetch_outcome = "fetched"
    /\ Len(api_log) > 1
    /\ api_log[1].page # <<>>
    /\ api_log[Len(api_log)].page # <<>>
    /\ Len(remote_costs) > 1
====
